---- MODULE Spec2Model ----
(***************************************************************************)
(* Model of the uda-connector core: the two-request login handshake of     *)
(* src/src/login.rs and the XLS member retrieval of                        *)
(* src/src/retrieve_members.rs.                                            *)
(*                                                                         *)
(* The HTTP server, the HTML parser and the XLS reader are the             *)
(* environment: each response is drawn from a bounded set.  An HTML page   *)
(* is the sequence of its elements in document order, a response text is   *)
(* the sequence of its fragments (each recognised phrase is one fragment), *)
(* a workbook is the outcome of each calamine call made on it.             *)
(***************************************************************************)
EXTENDS Integers, Sequences, FiniteSets, TLC

VARIABLES
    pc,                 \* position of the caller / of the running operation
    calls,              \* number of operations that have returned
    login,              \* argument of the running authenticate_into_uda
    password,           \* argument of the running authenticate_into_uda
    authenticity_token, \* local of authenticate_into_uda (login.rs:21)
    requests,           \* requests issued by the running operation, in order
    responses,          \* responses received by the running operation, in order
    xls_input,          \* cursors handed to retrieve_imported_members_from_xls
    log,                \* log entries written by the running operation
    result,             \* value returned by the running operation
    signed_in_with      \* token of the preceding call if it signed in, else unset

vars == <<pc, calls, login, password, authenticity_token, requests, responses,
          xls_input, log, result, signed_in_with>>

----------------------------------------------------------------------------
(* Bounds of the model *)

MaxCalls == 2
MaxElems == 2
MaxFragments == 2
MaxRows == 3
MaxSheets == 2

(* Program constants *)

IdLimit == 2000
Unauthorized == 401

----------------------------------------------------------------------------
(* Bounded sequences *)

SeqUpTo(S, n) == UNION {[1..k -> S] : k \in 0..n}

(* Input domains *)

Logins == {"login"}
Passwords == {"password"}

NoAttr == "<no attribute>"
NoToken == "<unset>"

Tags == {"input", "div"}
Names == {"authenticity_token", "utf8"}
Values == {NoAttr, "TOK1", "TOK2"}
Elements == [tag : Tags, name : Names, value : Values]
Pages == SeqUpTo(Elements, MaxElems)

SignedInSuccessfully == "Signed in successfully"
AlreadySignedIn == "You are already signed in"
InvalidCredentials == "Invalid User Account Email or password"
Fragments == {SignedInSuccessfully, AlreadySignedIn, InvalidCredentials, "<html>"}
Texts == SeqUpTo(Fragments, MaxFragments)

SignInGetStatuses == {200, 500}
SignInStatuses == {200, 201, 500}
ExportStatuses == {200, 204, 401, 403, 500}

ErrorLevel == "error"
WarnLevel == "warn"
DebugLevel == "debug"

----------------------------------------------------------------------------
(* Result<T> values, or a panic unwinding out of the call.  log holds the
   entries written while computing the value, xls the cursors handed to the
   XLS decoder on the way *)

Ok(v, l) == [kind |-> "ok", err |-> "none", value |-> v, log |-> l, xls |-> <<>>]
Err(e, l) == [kind |-> "err", err |-> e, value |-> <<>>, log |-> l, xls |-> <<>>]
Panicked(l) == [kind |-> "panic", err |-> "none", value |-> <<>>, log |-> l, xls |-> <<>>]
NoResult == [kind |-> "none", err |-> "none", value |-> <<>>]

(* what the caller gets: the value without the bookkeeping *)
Returned(r) == [kind |-> r.kind, err |-> r.err, value |-> r.value]

(* crate::error helpers: a closure that logs one error entry and returns the
   given error whatever the error it receives *)
log_error_and_return(error_to_return) ==
    [level |-> ErrorLevel, ret |-> error_to_return]

log_message_and_return(error_to_return) ==
    [level |-> ErrorLevel, ret |-> error_to_return]

(* Result::map_err: an Err is passed through the closure, the rest is kept *)
map_err(r, f) ==
    IF r.kind = "err"
    THEN [r EXCEPT !.err = f.ret, !.log = Append(@, f.level)]
    ELSE r

----------------------------------------------------------------------------
(* HTTP responses *)

TransportError == [kind |-> "transport_error", status |-> 0, body |-> <<>>, readable |-> FALSE]
Response(s, b, ok) == [kind |-> "response", status |-> s, body |-> b, readable |-> ok]

is_success(status) == status >= 200 /\ status < 300

SignInGetResponses ==
    {TransportError}
    \cup {Response(s, <<>>, FALSE) : s \in SignInGetStatuses}
    \cup {Response(s, b, TRUE) : s \in SignInGetStatuses, b \in Pages}

SignInPostResponses ==
    {TransportError}
    \cup {Response(s, <<>>, FALSE) : s \in SignInStatuses}
    \cup {Response(s, b, TRUE) : s \in SignInStatuses, b \in Texts}

----------------------------------------------------------------------------
(* login.rs *)

ConnectionFailed == "ConnectionFailed"
WrongCredentials == "WrongCredentials"

SignInPath == "/en/users/sign_in"

(* the error of a failed reqwest call, before it is classified *)
ReqwestError == Err("reqwest::Error", <<>>)

(* Selector input[name="authenticity_token"] *)
token_selector(element) ==
    element.tag = "input" /\ element.name = "authenticity_token"

(* document.select(&token_selector).next(): index of the first match, 0 if none *)
select_next(document) ==
    LET matches == {i \in 1..Len(document) : token_selector(document[i])}
    IN IF matches = {} THEN 0
       ELSE CHOOSE i \in matches : \A j \in matches : i <= j

(* mutant: a page without the input yields an empty token instead of an error *)
get_authenticity_token_from_html_default(document) ==
    LET i == select_next(document)
    IN IF i = 0
       THEN Ok("", <<>>)
       ELSE IF document[i].value = NoAttr
            THEN Panicked(<<>>)
            ELSE Ok(document[i].value, <<>>)

get_authenticity_token_from_html(document) ==
    LET i == select_next(document)
    IN IF i = 0
       THEN Err(ConnectionFailed, <<ErrorLevel>>)
       ELSE IF document[i].value = NoAttr
            THEN Panicked(<<>>)
            ELSE Ok(document[i].value, <<>>)

(* mutant: the status of the GET is checked before the page is parsed *)
get_authenticity_token_status_checked(response) ==
    IF response.kind = "transport_error"
    THEN map_err(ReqwestError, log_message_and_return(ConnectionFailed))
    ELSE IF ~is_success(response.status)
         THEN Err(ConnectionFailed, <<ErrorLevel>>)
         ELSE IF ~response.readable
              THEN map_err(ReqwestError, log_error_and_return(ConnectionFailed))
              ELSE map_err(get_authenticity_token_from_html(response.body),
                           log_message_and_return(ConnectionFailed))

(* get_authenticity_token from the point where the GET is answered *)
get_authenticity_token(response) ==
    IF response.kind = "transport_error"
    THEN map_err(ReqwestError, log_message_and_return(ConnectionFailed))
    ELSE IF ~response.readable
         THEN map_err(ReqwestError, log_error_and_return(ConnectionFailed))
         ELSE map_err(get_authenticity_token_from_html(response.body),
                      log_message_and_return(ConnectionFailed))

(* U+2713 CHECK MARK *)
CheckMark == "U+2713"

(* mutant: the password and the token change places *)
params_swapped(token, l, p) ==
    << <<"user[email]", l>>,
       <<"user[password]", token>>,
       <<"authenticity_token", p>>,
       <<"utf8", CheckMark>> >>

(* the form of the credential POST *)
params(token, l, p) ==
    << <<"user[email]", l>>,
       <<"user[password]", p>>,
       <<"authenticity_token", token>>,
       <<"utf8", CheckMark>> >>

GetRequest(path) == [method |-> "GET", path |-> path, form |-> <<>>]
PostRequest(path, form) == [method |-> "POST", path |-> path, form |-> form]

contains(text, phrase) == \E i \in 1..Len(text) : text[i] = phrase

(* mutant: the second success phrase is forgotten *)
signed_in_first_phrase_only(text) == contains(text, SignedInSuccessfully)

signed_in(text) ==
    contains(text, SignedInSuccessfully) \/ contains(text, AlreadySignedIn)

rejected(text) == contains(text, InvalidCredentials)

(* check_credentials from the point where the POST is answered *)
check_credentials(response) ==
    IF response.kind = "transport_error"
    THEN map_err(ReqwestError, log_message_and_return(ConnectionFailed))
    ELSE IF is_success(response.status)
         THEN IF ~response.readable
              THEN map_err(ReqwestError, log_message_and_return(ConnectionFailed))
              ELSE IF signed_in(response.body)
                   THEN Ok(<<>>, <<DebugLevel>>)
                   ELSE IF rejected(response.body)
                        THEN Err(WrongCredentials, <<ErrorLevel>>)
                        ELSE Err(ConnectionFailed, <<ErrorLevel>>)
         ELSE Err(ConnectionFailed, <<ErrorLevel>>)

(* mutant: the closure of the token step is reused for the credential step *)
credentials_error_as_token_step == log_error_and_return(ConnectionFailed)

(* the closure applied to every error of check_credentials (login.rs:27) *)
credentials_error == log_error_and_return(WrongCredentials)

(* mutant: a call that follows a successful one takes the session for granted
   and returns without any request *)
AuthCall_session_cached(l, p) ==
    /\ pc = "idle"
    /\ calls < MaxCalls
    /\ login' = l
    /\ password' = p
    /\ IF signed_in_with = NoToken
       THEN /\ pc' = "auth_get"
            /\ requests' = <<GetRequest(SignInPath)>>
            /\ UNCHANGED result
       ELSE /\ pc' = "auth_done"
            /\ result' = Returned(Ok(<<>>, <<>>))
            /\ UNCHANGED requests
    /\ UNCHANGED <<calls, authenticity_token, responses, xls_input, log,
                   signed_in_with>>

(* authenticate_into_uda is called: the token GET is sent *)
AuthCall(l, p) ==
    /\ pc = "idle"
    /\ calls < MaxCalls
    /\ pc' = "auth_get"
    /\ login' = l
    /\ password' = p
    /\ requests' = <<GetRequest(SignInPath)>>
    /\ UNCHANGED <<calls, authenticity_token, responses, xls_input, log, result,
                   signed_in_with>>

(* the GET is answered: get_authenticity_token finishes (login.rs:21-23) and,
   with a token, check_credentials sends the POST (login.rs:25,71-82) *)
AuthGetAnswered ==
    /\ pc = "auth_get"
    /\ \E response \in SignInGetResponses :
        /\ responses' = Append(responses, response)
        /\ LET r == map_err(get_authenticity_token(response),
                            log_error_and_return(ConnectionFailed))
           IN /\ log' = log \o r.log
              /\ IF r.kind = "ok"
                 THEN /\ authenticity_token' = r.value
                      /\ requests' = Append(requests,
                            PostRequest(SignInPath, params(r.value, login, password)))
                      /\ pc' = "auth_post"
                      /\ UNCHANGED result
                 ELSE /\ result' = Returned(r)
                      /\ pc' = "auth_done"
                      /\ UNCHANGED <<authenticity_token, requests>>
    /\ UNCHANGED <<calls, login, password, xls_input, signed_in_with>>

(* the POST is answered: check_credentials finishes (login.rs:25-27) *)
AuthPostAnswered ==
    /\ pc = "auth_post"
    /\ \E response \in SignInPostResponses :
        /\ responses' = Append(responses, response)
        /\ LET r == map_err(check_credentials(response), credentials_error)
           IN /\ log' = log \o r.log
              /\ result' = Returned(r)
    /\ pc' = "auth_done"
    /\ UNCHANGED <<calls, login, password, authenticity_token, requests, xls_input,
                   signed_in_with>>

(* the operation has returned (or unwound): its locals are dropped *)
Return ==
    /\ pc \in {"auth_done", "retr_done"}
    /\ pc' = "idle"
    /\ calls' = calls + 1
    /\ login' = ""
    /\ password' = ""
    /\ authenticity_token' = NoToken
    /\ requests' = <<>>
    /\ responses' = <<>>
    /\ xls_input' = <<>>
    /\ log' = <<>>
    /\ result' = NoResult
    /\ signed_in_with' = IF pc = "auth_done" /\ result.kind = "ok"
                         THEN authenticity_token
                         ELSE NoToken

----------------------------------------------------------------------------
(* retrieve_members.rs *)

OrganizationMembershipsAccessFailed == "OrganizationMembershipsAccessFailed"
LackOfPermissions == "LackOfPermissions"
MalformedXlsFile == "MalformedXlsFile"

ExportPath == "/en/organization_memberships/export.xls"

Ids == {0, 1, IdLimit - 1, IdLimit, 3000}
FirstNames == {"Jon", "Kris"}

(* ImportedUdaMember: the row as read, fields beyond the projected ones included *)
ImportedUdaMembers == [id : Ids, first_name : FirstNames, address : {"42, Le Village"}]

(* one item of the RangeDeserializer: Ok(member) or Err *)
RowOk(m) == [ok |-> TRUE, member |-> m]
RowErr == [ok |-> FALSE, member |-> [id |-> 0, first_name |-> "", address |-> ""]]
RowResults == {RowOk(m) : m \in ImportedUdaMembers} \cup {RowErr}

(* a workbook: what open_workbook_from_rs, sheet_names, worksheet_range of the
   first sheet name and from_range answer on it, and the rows then iterated *)
Workbook(o, n, r, d, rows) ==
    [opens |-> o, sheet_names |-> [i \in 1..n |-> i], range_ok |-> r,
     deser_ok |-> d, rows |-> rows]

Workbooks ==
    {Workbook(FALSE, 0, FALSE, FALSE, <<>>)}
    \cup {Workbook(TRUE, 0, FALSE, FALSE, <<>>)}
    \cup {Workbook(TRUE, n, FALSE, FALSE, <<>>) : n \in 1..MaxSheets}
    \cup {Workbook(TRUE, n, TRUE, FALSE, <<>>) : n \in 1..MaxSheets}
    \cup {Workbook(TRUE, n, TRUE, TRUE, rows) :
            n \in 1..MaxSheets, rows \in SeqUpTo(RowResults, MaxRows)}

ExportResponses ==
    {TransportError}
    \cup {Response(s, <<>>, FALSE) : s \in ExportStatuses}
    \cup {Response(s, <<wb>>, TRUE) : s \in ExportStatuses, wb \in Workbooks}

(* mutant: the range pattern is inclusive, 0..=2000 *)
competitor_inclusive(id) == id >= 0 /\ id <= IdLimit

(* the range pattern 0..2000 on member.id() *)
competitor(id) == id >= 0 /\ id < IdLimit

(* the closure given to flat_map: the items one row contributes, and its log *)
filter_row(row) ==
    IF row.ok
    THEN IF competitor(row.member.id)
         THEN [items |-> <<row.member>>, log |-> <<>>]
         ELSE [items |-> <<>>, log |-> <<>>]
    ELSE [items |-> <<>>, log |-> <<WarnLevel>>]

(* mutant: the iteration ends at the first row that fails to deserialize *)
RECURSIVE flat_map_until_error(_)
flat_map_until_error(rows) ==
    IF rows = <<>> \/ ~Head(rows).ok
    THEN [items |-> <<>>, log |-> <<>>]
    ELSE LET head == filter_row(Head(rows))
             rest == flat_map_until_error(Tail(rows))
         IN [items |-> head.items \o rest.items, log |-> head.log \o rest.log]

(* deserializer.flat_map(..).collect() *)
RECURSIVE flat_map(_)
flat_map(rows) ==
    IF rows = <<>>
    THEN [items |-> <<>>, log |-> <<>>]
    ELSE LET head == filter_row(Head(rows))
             rest == flat_map(Tail(rows))
         IN [items |-> head.items \o rest.items, log |-> head.log \o rest.log]

(* the error of a failed calamine call, before it is classified *)
CalamineError == Err("calamine::Error", <<>>)

(* mutant: a workbook without sheets is reported as an access failure *)
worksheet_name_access_failed(sheets) ==
    IF sheets = <<>>
    THEN Err(OrganizationMembershipsAccessFailed, <<>>)
    ELSE Ok(sheets[1], <<>>)

(* sheets.first().ok_or(MalformedXlsFile) *)
worksheet_name(sheets) ==
    IF sheets = <<>> THEN Err(MalformedXlsFile, <<>>) ELSE Ok(sheets[1], <<>>)

retrieve_imported_members_from_xls(cursor) ==
    LET workbook == cursor[1]
        r == IF ~workbook.opens
             THEN map_err(CalamineError, log_error_and_return(MalformedXlsFile))
             ELSE IF worksheet_name(workbook.sheet_names).kind = "err"
                  THEN worksheet_name(workbook.sheet_names)
                  ELSE IF ~workbook.range_ok
                       THEN map_err(CalamineError,
                                    log_message_and_return(MalformedXlsFile))
                       ELSE IF ~workbook.deser_ok
                            THEN map_err(CalamineError,
                                         log_message_and_return(MalformedXlsFile))
                            ELSE LET members == flat_map(workbook.rows)
                                 IN Ok(members.items, members.log)
    IN [r EXCEPT !.xls = cursor]

(* From<ImportedUdaMember> for UdaMember *)
into(imported_member) ==
    [id |-> imported_member.id, first_name |-> imported_member.first_name]

(* Result::map with the projection of every member *)
map_into(r) ==
    IF r.kind = "ok"
    THEN [r EXCEPT !.value = [i \in 1..Len(r.value) |-> into(r.value[i])]]
    ELSE r

(* mutant: the status of "forbidden" is taken for the one of "unauthorized" *)
unauthorized_403(status) == status = 403

(* status.as_u16() == 401 *)
unauthorized(status) == status = Unauthorized

(* retrieve_members from the point where the GET is answered *)
retrieve_members(response) ==
    IF response.kind = "transport_error"
    THEN map_err(ReqwestError, log_error_and_return(OrganizationMembershipsAccessFailed))
    ELSE IF is_success(response.status)
         THEN IF ~response.readable
              THEN map_err(ReqwestError,
                           log_message_and_return(OrganizationMembershipsAccessFailed))
              ELSE map_into(retrieve_imported_members_from_xls(response.body))
         ELSE IF unauthorized(response.status)
              THEN Err(LackOfPermissions, <<ErrorLevel>>)
              ELSE Err(OrganizationMembershipsAccessFailed, <<ErrorLevel>>)

(* retrieve_members is called: the export GET is sent *)
RetrieveCall ==
    /\ pc = "idle"
    /\ calls < MaxCalls
    /\ pc' = "retr_get"
    /\ requests' = <<GetRequest(ExportPath)>>
    /\ UNCHANGED <<calls, login, password, authenticity_token, responses,
                   xls_input, log, result, signed_in_with>>

(* the export GET is answered: retrieve_members finishes *)
RetrieveAnswered ==
    /\ pc = "retr_get"
    /\ \E response \in ExportResponses :
        /\ responses' = Append(responses, response)
        /\ LET r == retrieve_members(response)
           IN /\ log' = log \o r.log
              /\ xls_input' = r.xls
              /\ result' = Returned(r)
    /\ pc' = "retr_done"
    /\ UNCHANGED <<calls, login, password, authenticity_token, requests,
                   signed_in_with>>

----------------------------------------------------------------------------
Init ==
    /\ pc = "idle"
    /\ calls = 0
    /\ login = ""
    /\ password = ""
    /\ authenticity_token = NoToken
    /\ requests = <<>>
    /\ responses = <<>>
    /\ xls_input = <<>>
    /\ log = <<>>
    /\ result = NoResult
    /\ signed_in_with = NoToken

Next ==
    \/ \E l \in Logins, p \in Passwords : AuthCall(l, p)
    \/ AuthGetAnswered
    \/ AuthPostAnswered
    \/ RetrieveCall
    \/ RetrieveAnswered
    \/ Return

Spec == Init /\ [][Next]_vars

(* a caller that only retrieves members *)
RetrieveNext ==
    \/ RetrieveCall
    \/ RetrieveAnswered
    \/ Return

RetrieveSpec == Init /\ [][RetrieveNext]_vars

----------------------------------------------------------------------------
(* Vocabulary of the properties, stated on what the server sent *)

Range(seq) == {seq[i] : i \in 1..Len(seq)}

IsTokenInput(e) == e.tag = "input" /\ e.name = "authenticity_token"

(* the page was delivered and decoded *)
PageRead(response) == response.kind = "response" /\ response.readable

(* the token the sign-in page offers: the value of its first token input *)
OffersToken(response, token) ==
    /\ PageRead(response)
    /\ \E i \in 1..Len(response.body) :
        /\ IsTokenInput(response.body[i])
        /\ response.body[i].value = token
        /\ \A j \in 1..(i - 1) : ~IsTokenInput(response.body[j])

YieldsToken(response) == \E token \in Values \ {NoAttr} : OffersToken(response, token)

Is2xx(response) ==
    response.kind = "response" /\ response.status \in 200..299

SaysSignedIn(response) ==
    /\ response.readable
    /\ {SignedInSuccessfully, AlreadySignedIn} \cap Range(response.body) # {}

SaysRejected(response) ==
    /\ response.readable
    /\ InvalidCredentials \in Range(response.body)

AuthReturned == pc = "auth_done"
PostAnswered == AuthReturned /\ Len(responses) = 2

Success == result.kind = "ok"
Fails(e) == result.kind = "err" /\ result.err = e

(* C1: authenticate_into_uda returns success exactly when the GET yielded a
   token, the POST was answered 2xx and the body contains one of the two success
   phrases; a body that also contains the rejection phrase is still a success *)
C1_SuccessIff ==
    AuthReturned =>
        (Success <=> /\ YieldsToken(responses[1])
                     /\ Len(responses) = 2
                     /\ Is2xx(responses[2])
                     /\ SaysSignedIn(responses[2]))

C1_Witness ==
    /\ PostAnswered
    /\ Success
    /\ responses[2].status = 201
    /\ AlreadySignedIn \in Range(responses[2].body)
    /\ InvalidCredentials \in Range(responses[2].body)

(* C2: a token is scraped and the POST is answered 2xx with the rejection
   phrase and no success phrase: the call returns WrongCredentials *)
C2_RejectedIsWrongCredentials ==
    (/\ PostAnswered
     /\ Is2xx(responses[2])
     /\ SaysRejected(responses[2])
     /\ ~SaysSignedIn(responses[2]))
        => Fails(WrongCredentials)

C2_Witness ==
    /\ PostAnswered
    /\ Is2xx(responses[2])
    /\ SaysRejected(responses[2])
    /\ ~SaysSignedIn(responses[2])
    /\ Fails(WrongCredentials)

(* C3: a token is scraped and the POST fails without an explicit rejection
   (transport failure, non-2xx status, 2xx body with none of the three phrases):
   the call returns ConnectionFailed, never WrongCredentials *)
C3_OtherFailureIsConnectionFailed ==
    (/\ PostAnswered
     /\ \/ responses[2].kind = "transport_error"
        \/ ~Is2xx(responses[2])
        \/ /\ responses[2].readable
           /\ ~SaysSignedIn(responses[2])
           /\ ~SaysRejected(responses[2]))
        => Fails(ConnectionFailed)

(* the three ways the token step fails that C4 names *)
ScrapeFails(response) ==
    \/ response.kind = "transport_error"
    \/ response.kind = "response" /\ ~response.readable
    \/ PageRead(response) /\ \A e \in Range(response.body) : ~IsTokenInput(e)

(* C4: when the token step fails (transport failure, undecodable body, or no
   input named authenticity_token) the call returns ConnectionFailed and issues
   no POST *)
C4_ScrapeFailureIsConnectionFailed ==
    (/\ pc \in {"auth_get", "auth_post", "auth_done"}
     /\ Len(responses) >= 1
     /\ ScrapeFails(responses[1]))
        => /\ AuthReturned
           /\ Fails(ConnectionFailed)
           /\ \A k \in 1..Len(requests) : requests[k].method # "POST"

C4_Witness ==
    /\ AuthReturned
    /\ PageRead(responses[1])
    /\ Len(responses[1].body) = MaxElems
    /\ \A e \in Range(responses[1].body) : ~IsTokenInput(e)
    /\ \E e \in Range(responses[1].body) : e.name = "authenticity_token"
    /\ Fails(ConnectionFailed)

(* C5: a POST is issued only after the GET of the same call was answered, and
   carries exactly user[email]=login, user[password]=password,
   authenticity_token=<the token that GET's page offers>, utf8=check mark, in
   that order *)
C5_PostAfterGetWithItsToken ==
    \A k \in 1..Len(requests) :
        requests[k].method = "POST" =>
            /\ k = 2
            /\ requests[1].method = "GET"
            /\ requests[1].path = "/en/users/sign_in"
            /\ requests[2].path = "/en/users/sign_in"
            /\ Len(responses) >= 1
            /\ Len(requests[2].form) = 4
            /\ requests[2].form[1] = <<"user[email]", login>>
            /\ requests[2].form[2] = <<"user[password]", password>>
            /\ requests[2].form[3][1] = "authenticity_token"
            /\ OffersToken(responses[1], requests[2].form[3][2])
            /\ requests[2].form[4] = <<"utf8", "U+2713">>

C5_Witness ==
    /\ calls >= 1
    /\ pc = "auth_post"
    /\ Len(requests) = 2
    /\ Len(responses) = 1
    /\ login = "login"
    /\ requests[2].form[3] = <<"authenticity_token", "TOK2">>
    /\ responses[1].body[1].value = "TOK1"

----------------------------------------------------------------------------
(* Properties of retrieve_members *)

RetrieveReturned == pc = "retr_done"

(* the workbook a 2xx export response delivered *)
Delivered(response) == Is2xx(response) /\ response.readable

Malformed(workbook) ==
    \/ ~workbook.opens
    \/ workbook.sheet_names = <<>>
    \/ ~workbook.range_ok
    \/ ~workbook.deser_ok

(* C6: the export GET is classified by status: transport failure or a non-2xx
   status other than 401 gives OrganizationMembershipsAccessFailed, 401 gives
   LackOfPermissions, only 2xx has the workbook decoded; without 2xx nothing is
   decoded and no member list is returned *)
C6_ExportClassifiedByStatus ==
    RetrieveReturned =>
        LET response == responses[1]
        IN /\ response.kind = "transport_error"
                => Fails("OrganizationMembershipsAccessFailed")
           /\ (response.kind = "response" /\ response.status = 401)
                => Fails("LackOfPermissions")
           /\ (response.kind = "response" /\ response.status \notin 200..299
                                          /\ response.status # 401)
                => Fails("OrganizationMembershipsAccessFailed")
           /\ ~Is2xx(response) => (xls_input = <<>> /\ ~Success)
           /\ xls_input # <<>> => (Is2xx(response) /\ xls_input = response.body)
           /\ Delivered(response) => xls_input = response.body

C6_Witness ==
    /\ RetrieveReturned
    /\ responses[1].kind = "response"
    /\ responses[1].status = 401
    /\ responses[1].readable
    /\ ~Malformed(responses[1].body[1])
    /\ Len(responses[1].body[1].rows) > 0
    /\ Fails("LackOfPermissions")
    /\ xls_input = <<>>

(* C7: a 2xx export whose bytes are a malformed workbook (does not open, has no
   sheet, first sheet range unreadable, or no deserializer can be built) fails
   the whole call with MalformedXlsFile; no member list is returned *)
C7_MalformedWorkbookFails ==
    (/\ RetrieveReturned
     /\ Delivered(responses[1])
     /\ Malformed(responses[1].body[1]))
        => (Fails("MalformedXlsFile") /\ result.value = <<>>)

C7_Witness ==
    /\ RetrieveReturned
    /\ Delivered(responses[1])
    /\ responses[1].body[1].opens
    /\ responses[1].body[1].sheet_names = <<>>
    /\ Fails("MalformedXlsFile")

(* rows of the delivered workbook, and the ones that deserialized *)
RowsOf(response) == response.body[1].rows
Deserialized(rows) == {i \in 1..Len(rows) : rows[i].ok}

(* C8: every returned member has 0 <= id < 2000; rows with id 0 or 1999 are
   kept, rows with id 2000 or more never appear *)
C8_ReturnedIdsBelow2000 ==
    (RetrieveReturned /\ Success) =>
        LET rows == RowsOf(responses[1])
        IN /\ \A k \in 1..Len(result.value) :
                result.value[k].id >= 0 /\ result.value[k].id < 2000
           /\ \A i \in Deserialized(rows) :
                rows[i].member.id \in {0, 1999} =>
                    \E k \in 1..Len(result.value) :
                        /\ result.value[k].id = rows[i].member.id
                        /\ result.value[k].first_name = rows[i].member.first_name
           /\ \A i \in Deserialized(rows) :
                rows[i].member.id >= 2000 =>
                    \A k \in 1..Len(result.value) :
                        result.value[k].id # rows[i].member.id

C8_Witness ==
    /\ RetrieveReturned
    /\ Success
    /\ {0, 1999} \subseteq {result.value[k].id : k \in 1..Len(result.value)}
    /\ \E i \in Deserialized(RowsOf(responses[1])) :
            RowsOf(responses[1])[i].member.id = 2000

(* the rows C9 says are returned: deserialized, with id < 2000 *)
KeptRows(rows) == {i \in Deserialized(rows) : rows[i].member.id < 2000}

(* the k-th smallest index of a set of indices *)
Nth(S, k) == CHOOSE i \in S : Cardinality({j \in S : j <= i}) = k

(* C9: for a well-formed workbook of N rows, K of which fail to deserialize,
   the call succeeds and returns exactly the rows that deserialized and have
   id < 2000, in row order, duplicates kept: N - K - (deserialized rows with
   id >= 2000) members *)
C9_KeptRowsInOrder ==
    (/\ RetrieveReturned
     /\ Delivered(responses[1])
     /\ ~Malformed(responses[1].body[1]))
        => LET rows == RowsOf(responses[1])
               N == Len(rows)
               K == N - Cardinality(Deserialized(rows))
               big == Cardinality({i \in Deserialized(rows) :
                                       rows[i].member.id >= 2000})
           IN /\ Success
              /\ Len(result.value) = N - K - big
              /\ \A k \in 1..Len(result.value) :
                    LET m == rows[Nth(KeptRows(rows), k)].member
                    IN result.value[k] = [id |-> m.id, first_name |-> m.first_name]

C9_Witness ==
    /\ RetrieveReturned
    /\ Success
    /\ Len(RowsOf(responses[1])) = 3
    /\ ~RowsOf(responses[1])[1].ok
    /\ RowsOf(responses[1])[2] = RowsOf(responses[1])[3]
    /\ Len(result.value) = 2
    /\ result.value[1] = result.value[2]

(* C10: a sign-in page whose authenticity_token input has no value attribute
   makes the call return ConnectionFailed *)
C10_MissingValueIsConnectionFailed ==
    (/\ AuthReturned
     /\ PageRead(responses[1])
     /\ \E i \in 1..Len(responses[1].body) :
            /\ IsTokenInput(responses[1].body[i])
            /\ responses[1].body[i].value = NoAttr
            /\ \A j \in 1..(i - 1) : ~IsTokenInput(responses[1].body[j]))
        => Fails(ConnectionFailed)

----------------------------------------------------------------------------
(* The status of the sign-in GET *)

InAuth == pc \in {"auth_get", "auth_post", "auth_done"}
GetAnswered500 ==
    InAuth /\ Len(responses) >= 1 /\ responses[1].kind = "response"
           /\ responses[1].status = 500

NoPostIssued == \A k \in 1..Len(requests) : requests[k].method # "POST"

(* the page's first token input carries no value attribute *)
FirstTokenInputHasNoValue(response) ==
    /\ PageRead(response)
    /\ \E i \in 1..Len(response.body) :
        /\ IsTokenInput(response.body[i])
        /\ response.body[i].value = NoAttr
        /\ \A j \in 1..(i - 1) : ~IsTokenInput(response.body[j])

(* C11 as stated: a sign-in GET answered 500 makes token scraping, and the
   call, return ConnectionFailed whatever the body.  The pages whose first
   token input has no value attribute are left to C10, so that a violation
   shows a 500 answer that is scraped successfully *)
C11_Get500IsConnectionFailed ==
    (GetAnswered500 /\ ~FirstTokenInputHasNoValue(responses[1]))
        => (AuthReturned /\ Fails(ConnectionFailed) /\ NoPostIssued)

(* C11 as amended: the status of the GET is not inspected.  Answered 500, the
   call returns ConnectionFailed when the body is undecodable or has no input
   named authenticity_token; when the first such input has a value that token
   is scraped and the POST is issued with it; when it has no value attribute
   the call panics *)
C11_Get500TreatedAsAnyStatus ==
    GetAnswered500 =>
        /\ ScrapeFails(responses[1])
              => (AuthReturned /\ Fails(ConnectionFailed) /\ NoPostIssued)
        /\ \A token \in {"TOK1", "TOK2"} :
              OffersToken(responses[1], token)
                  => /\ Len(requests) = 2
                     /\ requests[2].method = "POST"
                     /\ requests[2].form[3] = <<"authenticity_token", token>>
        /\ FirstTokenInputHasNoValue(responses[1])
              => (AuthReturned /\ result.kind = "panic" /\ NoPostIssued)

C11_Witness ==
    /\ GetAnswered500
    /\ pc = "auth_post"
    /\ OffersToken(responses[1], "TOK2")
    /\ requests[2].form[3] = <<"authenticity_token", "TOK2">>

----------------------------------------------------------------------------
(* Two authentications in sequence *)

(* the running call follows a call of authenticate_into_uda that succeeded *)
FollowsSignIn == InAuth /\ signed_in_with # NoToken

(* C12: an authenticate_into_uda that follows a successful one starts with its
   own token GET, posts the token of that GET whatever the earlier call's
   token was, and succeeds when the server answers that POST 2xx with "Signed
   in successfully" or with "You are already signed in" *)
C12_SecondSignInSucceeds ==
    FollowsSignIn =>
        /\ Len(requests) >= 1
        /\ requests[1] = [method |-> "GET", path |-> "/en/users/sign_in",
                          form |-> <<>>]
        /\ Len(requests) = 2
              => /\ Len(responses) >= 1
                 /\ requests[2].method = "POST"
                 /\ OffersToken(responses[1], requests[2].form[3][2])
        /\ \A phrase \in {SignedInSuccessfully, AlreadySignedIn} :
              (/\ PostAnswered
               /\ Is2xx(responses[2])
               /\ responses[2].readable
               /\ phrase \in Range(responses[2].body))
                  => Success

C12_Witness ==
    /\ FollowsSignIn
    /\ signed_in_with = "TOK1"
    /\ PostAnswered
    /\ requests[2].form[3] = <<"authenticity_token", "TOK2">>
    /\ responses[2].body = <<AlreadySignedIn>>
    /\ Success

----------------------------------------------------------------------------
(* Requests per call, and the log of a failing call *)

InRetrieve == pc \in {"retr_get", "retr_done"}
CallReturned == pc \in {"auth_done", "retr_done"}

Count(seq, P(_)) == Cardinality({i \in 1..Len(seq) : P(seq[i])})

IsSignInGet(request) == request.method = "GET" /\ request.path = "/en/users/sign_in"
IsSignInPost(request) == request.method = "POST" /\ request.path = "/en/users/sign_in"
IsExportGet(request) ==
    request.method = "GET" /\ request.path = "/en/organization_memberships/export.xls"

(* the requests part of C13: no operation sends a request twice *)
NoRetry ==
    /\ InAuth => /\ Count(requests, IsSignInGet) = 1
                 /\ Count(requests, IsSignInPost) <= 1
                 /\ Len(requests) = Count(requests, IsSignInGet)
                                    + Count(requests, IsSignInPost)
    /\ InRetrieve => (Len(requests) = 1 /\ IsExportGet(requests[1]))

(* C13: no operation retries: a call of authenticate_into_uda issues at most
   one GET and at most one POST to /en/users/sign_in, a call of retrieve_members
   exactly one GET to the export, whatever the error; and once these requests
   are answered the call ends with a result *)
C13_NoRetryAndResult ==
    /\ NoRetry
    /\ CallReturned => /\ Len(responses) = Len(requests)
                       /\ result.kind \in {"ok", "err"}

IsErrorEntry(entry) == entry = "error"

(* C14: every error returned to the caller is logged exactly once: a failing
   call writes one error entry, not none and not several (the warnings of the
   rows are not error entries) *)
C14_ErrorLoggedOnce ==
    (CallReturned /\ result.kind = "err") => Count(log, IsErrorEntry) = 1

====
